---- MODULE Spec2Model ----
(***************************************************************************)
(* Model of the aruco_ros2 node (src/aruco_ros2/src/aruco_ros2.cpp):       *)
(* startup (main, initialize, dictNameToEnum), the calibration callback    *)
(* (camera_info_callback) and the per-frame pipeline (image_callback).     *)
(*                                                                         *)
(* The marker detector, the pose estimator, the image decoder and the      *)
(* transform buffer are external: their results are inputs of the image    *)
(* callback, drawn from small sets.  What the node sends to its sinks      *)
(* during the most recent image callback is kept in tf_sent, image_pub,    *)
(* marker_array_pub, detect_calls, estimate_calls, lookups and log.        *)
(***************************************************************************)
EXTENDS Integers, Sequences, FiniteSets, TLC

VARIABLES
    phase,                   \* position of main: constructed, spinning, terminated, crashed
    dictionary_,             \* the "dictionary" parameter
    aruco_dict_,             \* the predefined dictionary selected by initialize
    image_subscriber_,       \* TRUE once the image subscription exists
    camera_info_subscriber_, \* TRUE once the calibration subscription exists
    camera_matrix_,          \* cv::Mat header over the calibration message's k array
    camera_distortion_,      \* cv::Mat owning a copy of the distortion coefficients
    received_camera_info_,   \* readiness flag
    last_info,               \* k and d of the calibration message handled last
    clock,                   \* the node clock, get_clock()->now()
    msg,                     \* the image message handled last, with the external results
    tf_sent,                 \* transforms broadcast during that image callback
    image_pub,               \* images published during that image callback
    marker_array_pub,        \* MarkerArrays published during that image callback
    detect_calls,            \* number of detectMarkers calls in that callback
    estimate_calls,          \* calls of estimatePoseSingleMarkers in that callback
    lookups,                 \* number of lookupTransform calls in that callback
    log,                     \* log lines of that image callback
    sink_order               \* the sinks written by that callback, in call order

vars == <<phase, dictionary_, aruco_dict_, image_subscriber_, camera_info_subscriber_,
          camera_matrix_, camera_distortion_, received_camera_info_, last_info, clock,
          msg, tf_sent, image_pub, marker_array_pub, detect_calls, estimate_calls,
          lookups, log, sink_order>>

calib_vars == <<camera_matrix_, camera_distortion_, received_camera_info_, last_info>>
frame_vars == <<msg, tf_sent, image_pub, marker_array_pub, detect_calls, estimate_calls,
               lookups, log, sink_order>>
start_vars == <<phase, dictionary_, aruco_dict_, image_subscriber_, camera_info_subscriber_>>

-----------------------------------------------------------------------------
(* Bounds of the model *)

MaxMarkers == 2     \* most candidates the detector returns for one frame

Times     == {0, 1}                       \* the values of the node clock
Stamps    == {0, 1}                       \* timestamps an image message can carry
MarkerIds == {7, 12}                      \* ids the detector can report
KVals     == {"K1", "K2"}                 \* intrinsic matrices a message can carry
DVals     == {<< >>, <<1, 1, 1, 1, 1>>}   \* distortion sequences a message can carry
Garbage   == "garbage"                    \* bytes that are not the k the header was built over
EmptyMat  == [k |-> "empty", released |-> FALSE]   \* a default-constructed cv::Mat
NoMsg     == [handled |-> FALSE]
NoInfo    == [handled |-> FALSE]

-----------------------------------------------------------------------------
(* Startup *)

camera_frame_ == "camera_rgb_optical_frame"

dict_name_map ==
    (   "DICT_4X4_50"         :> "cv::aruco::DICT_4X4_50"
     @@ "DICT_4X4_100"        :> "cv::aruco::DICT_4X4_100"
     @@ "DICT_4X4_250"        :> "cv::aruco::DICT_4X4_250"
     @@ "DICT_4X4_1000"       :> "cv::aruco::DICT_4X4_1000"
     @@ "DICT_5X5_50"         :> "cv::aruco::DICT_5X5_50"
     @@ "DICT_5X5_100"        :> "cv::aruco::DICT_5X5_100"
     @@ "DICT_5X5_250"        :> "cv::aruco::DICT_5X5_250"
     @@ "DICT_5X5_1000"       :> "cv::aruco::DICT_5X5_1000"
     @@ "DICT_6X6_50"         :> "cv::aruco::DICT_6X6_50"
     @@ "DICT_6X6_100"        :> "cv::aruco::DICT_6X6_100"
     @@ "DICT_6X6_250"        :> "cv::aruco::DICT_6X6_250"
     @@ "DICT_6X6_1000"       :> "cv::aruco::DICT_6X6_1000"
     @@ "DICT_7X7_50"         :> "cv::aruco::DICT_7X7_50"
     @@ "DICT_7X7_100"        :> "cv::aruco::DICT_7X7_100"
     @@ "DICT_7X7_250"        :> "cv::aruco::DICT_7X7_250"
     @@ "DICT_7X7_1000"       :> "cv::aruco::DICT_7X7_1000"
     @@ "DICT_ARUCO_ORIGINAL" :> "cv::aruco::DICT_ARUCO_ORIGINAL"
     @@ "DICT_APRILTAG_16h5"  :> "cv::aruco::DICT_APRILTAG_16h5"
     @@ "DICT_APRILTAG_25h9"  :> "cv::aruco::DICT_APRILTAG_25h9"
     @@ "DICT_APRILTAG_36h10" :> "cv::aruco::DICT_APRILTAG_36h10"
     @@ "DICT_APRILTAG_36h11" :> "cv::aruco::DICT_APRILTAG_36h11" )

\* Strings the dictionary parameter is drawn from: the names of the table and
\* strings that are not in it.
DictionaryParams ==
    DOMAIN dict_name_map \cup {"NOT_A_REAL_DICT", "", "dict_4x4_50", "DICT_4X4"}

\* Mutant of dictNameToEnum: a name that is not in the table selects the
\* first dictionary instead of throwing.
dictNameToEnum_default(dict_name) ==
    IF dict_name \in DOMAIN dict_name_map
    THEN [thrown |-> FALSE, value |-> dict_name_map[dict_name]]
    ELSE [thrown |-> FALSE, value |-> "cv::aruco::DICT_4X4_50"]

\* The result of dictNameToEnum: the enumerator, or the exception it throws.
dictNameToEnum(dict_name) ==
    IF dict_name \in DOMAIN dict_name_map
    THEN [thrown |-> FALSE, value |-> dict_name_map[dict_name]]
    ELSE [thrown |-> TRUE, value |-> "std::invalid_argument"]

\* The state main is in after the constructor (lines 21-40, 315-317).
StartState ==
    /\ phase = "constructed"
    /\ aruco_dict_ = "null"
    /\ image_subscriber_ = FALSE
    /\ camera_info_subscriber_ = FALSE
    /\ camera_matrix_ = EmptyMat
    /\ camera_distortion_ = EmptyMat
    /\ received_camera_info_ = FALSE
    /\ last_info = NoInfo
    /\ clock = 0
    /\ msg = NoMsg
    /\ tf_sent = << >>
    /\ image_pub = << >>
    /\ marker_array_pub = << >>
    /\ detect_calls = 0
    /\ estimate_calls = << >>
    /\ lookups = 0
    /\ log = << >>
    /\ sink_order = << >>

\* main: initialize() creates both subscriptions, then selects the dictionary;
\* the exception of dictNameToEnum leaves main, which never reaches spin.
initialize ==
    /\ phase = "constructed"
    /\ image_subscriber_' = TRUE
    /\ camera_info_subscriber_' = TRUE
    /\ LET r == dictNameToEnum(dictionary_)
       IN  IF r.thrown
           THEN /\ phase' = "terminated"
                /\ aruco_dict_' = aruco_dict_
           ELSE /\ phase' = "spinning"
                /\ aruco_dict_' = r.value
    /\ UNCHANGED <<dictionary_, clock>>
    /\ UNCHANGED calib_vars
    /\ UNCHANGED frame_vars

\* Time passes between callbacks: the node clock advances.
Tick ==
    /\ phase = "spinning"
    /\ clock + 1 \in Times
    /\ clock' = clock + 1
    /\ UNCHANGED start_vars
    /\ UNCHANGED calib_vars
    /\ UNCHANGED frame_vars

-----------------------------------------------------------------------------
(* Calibration *)

\* cv::Mat::zeros(1, 4, CV_64F)
Zeros4 == <<0, 0, 0, 0>>

\* What a read through a cv::Mat header yields.  A header whose message has
\* been destroyed points into freed memory: the read yields the old bytes or
\* whatever has been stored there since.
ReadMat(m) ==
    IF m.released THEN {m.k, Garbage} ELSE {m.k}

\* Mutant of camera_info_callback: the first callback marks calibration as
\* received only when the message carries the five coefficients it logs.
camera_info_callback_full_d_only(k, d, survives) ==
    /\ phase = "spinning"
    /\ camera_info_subscriber_
    /\ survives
    /\ camera_matrix_' = [k |-> k, released |-> TRUE]
    /\ camera_distortion_' = IF d = << >> THEN Zeros4 ELSE d
    /\ received_camera_info_' = (received_camera_info_ \/ Len(d) >= 5)
    /\ last_info' = [handled |-> TRUE, k |-> k, d |-> d]
    /\ UNCHANGED <<phase, dictionary_, aruco_dict_, image_subscriber_,
                   camera_info_subscriber_, clock>>
    /\ UNCHANGED frame_vars

\* Mutant of camera_info_callback: every callback flips the readiness flag.
camera_info_callback_toggle(k, d, survives) ==
    /\ phase = "spinning"
    /\ camera_info_subscriber_
    /\ survives
    /\ camera_matrix_' = [k |-> k, released |-> TRUE]
    /\ camera_distortion_' = IF d = << >> THEN Zeros4 ELSE d
    /\ received_camera_info_' = ~received_camera_info_
    /\ last_info' = [handled |-> TRUE, k |-> k, d |-> d]
    /\ UNCHANGED <<phase, dictionary_, aruco_dict_, image_subscriber_,
                   camera_info_subscriber_, clock>>
    /\ UNCHANGED frame_vars

\* camera_info_callback(msg) for a message carrying k and d.  The message is
\* destroyed when the callback returns: the executor holds the only reference.
\* `survives` is the outcome of the first callback's read of d[0..4] past the
\* end of a shorter d.
camera_info_callback(k, d, survives) ==
    /\ phase = "spinning"
    /\ camera_info_subscriber_
    /\ camera_matrix_' = [k |-> k, released |-> TRUE]
    /\ camera_distortion_' = IF d = << >> THEN Zeros4 ELSE d
    /\ IF received_camera_info_
       THEN /\ survives
            /\ UNCHANGED <<received_camera_info_, phase>>
            /\ last_info' = [handled |-> TRUE, k |-> k, d |-> d]
       ELSE IF Len(d) >= 5 \/ survives
            THEN /\ received_camera_info_' = TRUE
                 /\ last_info' = [handled |-> TRUE, k |-> k, d |-> d]
                 /\ UNCHANGED phase
            ELSE /\ phase' = "crashed"
                 /\ UNCHANGED <<received_camera_info_, last_info>>
    /\ UNCHANGED <<dictionary_, aruco_dict_, image_subscriber_, camera_info_subscriber_, clock>>
    /\ UNCHANGED frame_vars

-----------------------------------------------------------------------------
(* The per-frame pipeline *)

\* Mutant of ChildFrame: the id is left out of the child frame's name.
ChildFrame_noid(id) == "aruco_marker_"

\* std::to_string of a marker id, and the child frame built from it.
ChildFrame(id) == "aruco_marker_" \o ToString(id)

\* What detectMarkers can return: up to MaxMarkers candidates in detection
\* order (two prints of one marker in view give the same id twice).
Detections == UNION { [1..n -> MarkerIds] : n \in 0..MaxMarkers }

\* What the loop over n candidates can meet, iteration by iteration, up to
\* the iteration that leaves it: "ok" is a non-empty pose row and a lookup that
\* succeeds, "degenerate" an empty pose row, "lookup_failed" a non-empty row
\* and a lookup that throws.  Rows and lookups of iterations that do not run
\* are never inspected.
IterationResults(n) ==
    { [i \in 1..n |-> "ok"] } \cup
    { [i \in 1..j |-> IF i < j THEN "ok" ELSE r] :
          j \in 1..n, r \in {"degenerate", "lookup_failed"} }

\* What one run of the callback sends to its sinks.
NoOutput ==
    [tf |-> << >>, image |-> << >>, array |-> << >>, detects |-> 0,
     estimate |-> << >>, lookups |-> 0, log |-> << >>, order |-> << >>]

\* Mutant of MarkerLoop: the broadcast carries the image's timestamp.
RECURSIVE MarkerLoop_imagestamp(_, _, _, _)
MarkerLoop_imagestamp(i, m, now, acc) ==
    IF i > Len(m.marker_ids)
    THEN [acc EXCEPT !.exit = "done"]
    ELSE IF m.results[i] = "degenerate"
    THEN [acc EXCEPT !.exit = "return",
                     !.out.log = Append(@, "Pose estimation failed for marker.")]
    ELSE LET id == m.marker_ids[i]
             marker_transform ==
                 [stamp |-> m.stamp, frame_id |-> camera_frame_,
                  child_frame_id |-> ChildFrame(id)]
             sent == [acc EXCEPT !.out.tf = Append(@, marker_transform),
                                 !.out.order = Append(@, "tf"),
                                 !.out.log = Append(@, "Detected marker"),
                                 !.out.lookups = @ + 1]
             marker == [frame_id |-> "map", stamp |-> m.stamp, id |-> id]
         IN  IF m.results[i] = "lookup_failed"
             THEN [sent EXCEPT !.exit = "tf2_exception"]
             ELSE MarkerLoop_imagestamp(i + 1, m, now,
                             [sent EXCEPT !.markers = Append(@, marker),
                                          !.axes = Append(@, id)])

\* Mutant of MarkerLoop: a candidate whose pose is empty is skipped and the
\* loop goes on with the next one.
RECURSIVE MarkerLoop_continue(_, _, _, _)
MarkerLoop_continue(i, m, now, acc) ==
    IF i > Len(m.marker_ids)
    THEN [acc EXCEPT !.exit = "done"]
    ELSE IF i <= Len(m.results) /\ m.results[i] = "degenerate"
    THEN MarkerLoop_continue(i + 1, m, now,
             [acc EXCEPT !.out.log = Append(@, "Pose estimation failed for marker.")])
    ELSE LET id == m.marker_ids[i]
             marker_transform ==
                 [stamp |-> now, frame_id |-> camera_frame_,
                  child_frame_id |-> ChildFrame(id)]
             sent == [acc EXCEPT !.out.tf = Append(@, marker_transform),
                                 !.out.order = Append(@, "tf"),
                                 !.out.log = Append(@, "Detected marker"),
                                 !.out.lookups = @ + 1]
             marker == [frame_id |-> "map", stamp |-> m.stamp, id |-> id]
         IN  IF i <= Len(m.results) /\ m.results[i] = "lookup_failed"
             THEN [sent EXCEPT !.exit = "tf2_exception"]
             ELSE MarkerLoop_continue(i + 1, m, now,
                             [sent EXCEPT !.markers = Append(@, marker),
                                          !.axes = Append(@, id)])

\* Mutant of MarkerLoop: the marker's transform is not broadcast; the loop
\* goes from the pose straight to the lookup.
RECURSIVE MarkerLoop_no_broadcast(_, _, _, _)
MarkerLoop_no_broadcast(i, m, now, acc) ==
    IF i > Len(m.marker_ids)
    THEN [acc EXCEPT !.exit = "done"]
    ELSE IF m.results[i] = "degenerate"
    THEN [acc EXCEPT !.exit = "return",
                     !.out.log = Append(@, "Pose estimation failed for marker.")]
    ELSE LET id == m.marker_ids[i]
             sent == [acc EXCEPT !.out.log = Append(@, "Detected marker"),
                                 !.out.lookups = @ + 1]
             marker == [frame_id |-> "map", stamp |-> m.stamp, id |-> id]
         IN  IF m.results[i] = "lookup_failed"
             THEN [sent EXCEPT !.exit = "tf2_exception"]
             ELSE MarkerLoop_no_broadcast(i + 1, m, now,
                             [sent EXCEPT !.markers = Append(@, marker),
                                          !.axes = Append(@, id)])

\* The marker loop (lines 131-203) from iteration i on.  m is the image
\* message with the external results, now the clock, acc the output so far
\* with the markers pushed onto marker_array and the axes drawn on the image.
\* The result carries how the loop was left: "done", "return" or
\* "tf2_exception".
RECURSIVE MarkerLoop(_, _, _, _)
MarkerLoop(i, m, now, acc) ==
    IF i > Len(m.marker_ids)
    THEN [acc EXCEPT !.exit = "done"]
    ELSE IF m.results[i] = "degenerate"
    THEN [acc EXCEPT !.exit = "return",
                     !.out.log = Append(@, "Pose estimation failed for marker.")]
    ELSE LET id == m.marker_ids[i]
             marker_transform ==
                 [stamp |-> now, frame_id |-> camera_frame_,
                  child_frame_id |-> ChildFrame(id)]
             sent == [acc EXCEPT !.out.tf = Append(@, marker_transform),
                                 !.out.order = Append(@, "tf"),
                                 !.out.log = Append(@, "Detected marker"),
                                 !.out.lookups = @ + 1]
             marker == [frame_id |-> "map", stamp |-> m.stamp, id |-> id]
         IN  IF m.results[i] = "lookup_failed"
             THEN [sent EXCEPT !.exit = "tf2_exception"]
             ELSE MarkerLoop(i + 1, m, now,
                             [sent EXCEPT !.markers = Append(@, marker),
                                          !.axes = Append(@, id)])

\* Mutant of Publish: the lookup's exception is caught inside the loop, so the
\* two publish calls are reached after it.
Publish_after_exception(m, now, loop) ==
    IF loop.exit \in {"done", "tf2_exception"}
    THEN [loop.out EXCEPT
             !.order = @ \o <<"image", "markers">>,
             !.image = <<[stamp |-> m.stamp, encoding |-> "bgr8", axes |-> loop.axes]>>,
             !.array = <<[stamp |-> now, frame_id |-> "map", markers |-> loop.markers]>>]
    ELSE loop.out

\* Mutant of Publish: the handler of the lookup's exception publishes the
\* image as annotated so far.
Publish_image_on_exception(m, now, loop) ==
    IF loop.exit = "done"
    THEN [loop.out EXCEPT
             !.order = @ \o <<"image", "markers">>,
             !.image = <<[stamp |-> m.stamp, encoding |-> "bgr8", axes |-> loop.axes]>>,
             !.array = <<[stamp |-> now, frame_id |-> "map", markers |-> loop.markers]>>]
    ELSE IF loop.exit = "tf2_exception"
    THEN [loop.out EXCEPT
             !.log = Append(@, "TF2 exception"),
             !.order = Append(@, "image"),
             !.image = <<[stamp |-> m.stamp, encoding |-> "bgr8", axes |-> loop.axes]>>]
    ELSE loop.out

\* Lines 206-220: what leaves the callback once the loop has been left as
\* loop.exit says.  Only a loop that ran to its end reaches the two publish
\* calls; the return leaves the callback, the exception is caught below them.
Publish(m, now, loop) ==
    IF loop.exit = "done"
    THEN [loop.out EXCEPT
             !.order = @ \o <<"image", "markers">>,
             !.image = <<[stamp |-> m.stamp, encoding |-> "bgr8", axes |-> loop.axes]>>,
             !.array = <<[stamp |-> now, frame_id |-> "map", markers |-> loop.markers]>>]
    ELSE IF loop.exit = "tf2_exception"
    THEN [loop.out EXCEPT !.log = Append(@, "TF2 exception")]
    ELSE loop.out

\* The state of the callback before the loop: the image decoded, the detector
\* run, nothing sent, marker_array empty, no axis drawn; estimates is the
\* estimator calls made so far.
BeforeLoop(estimates) ==
    [out |-> [NoOutput EXCEPT !.detects = 1, !.estimate = estimates],
     markers |-> << >>, axes |-> << >>, exit |-> "done"]

\* Mutant of ProcessFrame: the decoder's exception is not raised, and the
\* frame goes on with an empty image.
ProcessFrame_undecoded(m, now, k, dist) ==
    IF m.marker_ids # << >>
    THEN Publish(m, now,
                 MarkerLoop(1, m, now,
                            BeforeLoop(<<[camera_matrix |-> k, dist_coeffs |-> dist,
                                          n |-> Len(m.marker_ids)]>>)))
    ELSE Publish(m, now, BeforeLoop(<< >>))

\* Mutant of ProcessFrame: the pose estimator is called whether or not the
\* detector found a candidate.
ProcessFrame_estimate_always(m, now, k, dist) ==
    IF ~m.decodable
    THEN [NoOutput EXCEPT !.log = <<"CV Bridge exception">>]
    ELSE Publish(m, now,
                 MarkerLoop(1, m, now,
                            BeforeLoop(<<[camera_matrix |-> k, dist_coeffs |-> dist,
                                          n |-> Len(m.marker_ids)]>>)))

\* The body of image_callback (lines 109-220) for a message m handled at clock
\* value now with calibration ready; k is what the pose estimator reads
\* through camera_matrix_, dist the distortion matrix.
ProcessFrame(m, now, k, dist) ==
    IF ~m.decodable
    THEN [NoOutput EXCEPT !.log = <<"CV Bridge exception">>]
    ELSE IF m.marker_ids # << >>
    THEN Publish(m, now,
                 MarkerLoop(1, m, now,
                            BeforeLoop(<<[camera_matrix |-> k, dist_coeffs |-> dist,
                                          n |-> Len(m.marker_ids)]>>)))
    ELSE Publish(m, now, BeforeLoop(<< >>))

\* Mutant of WaitingForCameraInfo: the readiness check is missing.
WaitingForCameraInfo_never == FALSE

\* Lines 103-107: the callback returns at once until calibration is ready.
WaitingForCameraInfo == ~received_camera_info_

\* Mutant of Deliver: marker_array outlives the callback, so a published set
\* still holds the records of the set published before it.
Deliver_carry(m, out) ==
    /\ msg' = m
    /\ tf_sent' = out.tf
    /\ image_pub' = out.image
    /\ marker_array_pub' =
          [i \in 1..Len(out.array) |->
              [out.array[i] EXCEPT
                  !.markers = IF marker_array_pub = << >>
                              THEN @
                              ELSE marker_array_pub[1].markers \o @]]
    /\ detect_calls' = out.detects
    /\ estimate_calls' = out.estimate
    /\ lookups' = out.lookups
    /\ log' = out.log
    /\ sink_order' = out.order

\* The callback's effect on the sinks.
Deliver(m, out) ==
    /\ msg' = m
    /\ tf_sent' = out.tf
    /\ image_pub' = out.image
    /\ marker_array_pub' = out.array
    /\ detect_calls' = out.detects
    /\ estimate_calls' = out.estimate
    /\ lookups' = out.lookups
    /\ log' = out.log
    /\ sink_order' = out.order

\* image_callback(msg): the image message carries stamp; decodable is whether
\* toCvCopy succeeds, ids what detectMarkers returns, results what the loop
\* meets.  An image that is dropped or does not decode reaches no detector.
\* msg keeps the message with these results, the clock value the callback ran
\* at (now) and the readiness flag it found (ready).
image_callback(stamp, decodable, ids, results) ==
    /\ phase = "spinning"
    /\ image_subscriber_
    /\ ~(received_camera_info_ /\ decodable) => ids = << >>
    /\ ~received_camera_info_ => decodable
    /\ LET m == [handled |-> TRUE, stamp |-> stamp, now |-> clock,
                 ready |-> received_camera_info_, decodable |-> decodable,
                 marker_ids |-> ids, results |-> results]
       IN  IF WaitingForCameraInfo
           THEN Deliver(m, [NoOutput EXCEPT !.log = <<"Waiting for camera info.">>])
           ELSE \E k \in IF ids # << >> THEN ReadMat(camera_matrix_) ELSE {Garbage} :
                   Deliver(m, ProcessFrame(m, clock, k, camera_distortion_))
    /\ UNCHANGED start_vars
    /\ UNCHANGED calib_vars
    /\ UNCHANGED clock

Next ==
    \/ initialize
    \/ Tick
    \/ \E k \in KVals, d \in DVals, survives \in BOOLEAN :
          camera_info_callback(k, d, survives)
    \/ \E stamp \in Stamps, decodable \in BOOLEAN, ids \in Detections :
          \E results \in IterationResults(Len(ids)) :
             image_callback(stamp, decodable, ids, results)

\* The node as configured by default, and with a dictionary it does not know.
ConfiguredDictionaries == {"DICT_4X4_1000", "NOT_A_REAL_DICT"}

Init == StartState /\ dictionary_ \in ConfiguredDictionaries

Spec == Init /\ [][Next]_vars

\* Startup under every dictionary string, before a camera that sees no marker.
InitAnyDictionary == StartState /\ dictionary_ \in DictionaryParams

NextNoMarker ==
    \/ initialize
    \/ Tick
    \/ \E k \in KVals, d \in DVals, survives \in BOOLEAN :
          camera_info_callback(k, d, survives)
    \/ \E stamp \in Stamps, decodable \in BOOLEAN :
          image_callback(stamp, decodable, << >>, << >>)

SpecStartup == InitAnyDictionary /\ [][NextNoMarker]_vars

-----------------------------------------------------------------------------
(* Properties *)

\* The image callback handled last found calibration ready.
Calibrated == msg.handled /\ msg.ready

\* ... and decoded its image, so the detector ran.
Decoded == msg.handled /\ msg.ready /\ msg.decodable

\* Every candidate of that frame had a non-empty pose and a successful lookup.
AllOk ==
    /\ Len(msg.results) = Len(msg.marker_ids)
    /\ \A i \in 1..Len(msg.results) : msg.results[i] = "ok"

\* Nothing was sent to any sink by the image callback handled last.
NothingSent ==
    /\ tf_sent = << >>
    /\ image_pub = << >>
    /\ marker_array_pub = << >>

\* A step of image_callback that does not repeat the frame before it.
ImageStep == frame_vars' # frame_vars

\* The ids of the records of a published MarkerArray, in order.
RecordIds(array) == [i \in 1..Len(array.markers) |-> array.markers[i].id]

\* The child frame names of the scenario's markers, written out.
ExpectedChild == (7 :> "aruco_marker_7" @@ 12 :> "aruco_marker_12")

\* C1: as long as no calibration callback has completed, an image callback
\* sends nothing: no MarkerArray, no transform, no image; it neither estimates
\* a pose nor looks up a transform.
C1_NoOutputBeforeCalibration ==
    (~received_camera_info_ \/ (msg.handled /\ ~msg.ready)) =>
        /\ NothingSent
        /\ estimate_calls = << >>
        /\ lookups = 0

\* C1 witness: an image was handled before calibration, and dropped.
C1_Witness ==
    /\ msg.handled /\ ~msg.ready
    /\ ~received_camera_info_
    /\ log = <<"Waiting for camera info.">>

\* C2: a calibrated frame with n >= 1 candidates, all with non-empty poses and
\* successful lookups, publishes exactly one MarkerArray whose n records carry
\* the candidates' ids in detection order, and broadcasts exactly n
\* transforms, the i-th from the camera frame to aruco_marker_<id_i>.
C2_AllMarkersPublished ==
    (Decoded /\ Len(msg.marker_ids) >= 1 /\ AllOk) =>
        /\ Len(marker_array_pub) = 1
        /\ RecordIds(marker_array_pub[1]) = msg.marker_ids
        /\ Len(tf_sent) = Len(msg.marker_ids)
        /\ \A i \in 1..Len(tf_sent) :
              /\ tf_sent[i].frame_id = "camera_rgb_optical_frame"
              /\ tf_sent[i].child_frame_id = ExpectedChild[msg.marker_ids[i]]

\* C2 witness: the frame with markers 7 and 12, both published.
C2_Witness ==
    /\ Decoded /\ AllOk
    /\ msg.marker_ids = <<7, 12>>
    /\ Len(marker_array_pub) = 1
    /\ Len(tf_sent) = 2

\* The lookup failed in the frame handled last: the last iteration that ran
\* is the one whose lookup threw.
LookupFailed ==
    /\ Decoded
    /\ msg.results # << >>
    /\ msg.results[Len(msg.results)] = "lookup_failed"

\* C3 as stated: when the lookup fails in a calibrated frame with n >= 1
\* candidates, no marker record is published and every one of the n candidates
\* is broadcast.
C3_Original ==
    LookupFailed =>
        /\ \A i \in 1..Len(marker_array_pub) : marker_array_pub[i].markers = << >>
        /\ Len(tf_sent) = Len(msg.marker_ids)

\* C3 amended: when the lookup fails at candidate j, no MarkerArray is
\* published at all, and exactly the candidates 1..j are broadcast, in order:
\* the failing candidate is the last one broadcast.
C3_BroadcastsUpToFailure ==
    LookupFailed =>
        /\ marker_array_pub = << >>
        /\ Len(tf_sent) = Len(msg.results)
        /\ \A i \in 1..Len(tf_sent) :
              tf_sent[i].child_frame_id = ExpectedChild[msg.marker_ids[i]]

\* C3 witness: markers 7 and 12 detected, the first lookup fails: one
\* broadcast, for marker 7.
C3_Witness ==
    /\ LookupFailed
    /\ msg.marker_ids = <<7, 12>>
    /\ msg.results = <<"lookup_failed">>
    /\ Len(tf_sent) = 1
    /\ tf_sent[1].child_frame_id = "aruco_marker_7"

\* C4 as stated: a calibrated, decodable frame without candidates publishes
\* exactly one MarkerArray, empty and stamped with the image's timestamp, and
\* the image without annotation; nothing is broadcast or looked up.
C4_Original ==
    (Decoded /\ msg.marker_ids = << >>) =>
        /\ Len(marker_array_pub) = 1
        /\ marker_array_pub[1].markers = << >>
        /\ marker_array_pub[1].stamp = msg.stamp
        /\ image_pub = <<[stamp |-> msg.stamp, encoding |-> "bgr8", axes |-> << >>]>>
        /\ tf_sent = << >>
        /\ lookups = 0

\* The ids of the candidates the loop completed before it was left.
CompletedIds ==
    [i \in 1..Cardinality({j \in 1..Len(msg.results) : msg.results[j] = "ok"})
        |-> msg.marker_ids[i]]

\* C5 as stated: every calibrated, decodable frame, also one whose loop is
\* left early, publishes the image and one MarkerArray with the records of the
\* candidates completed before the loop was left.
C5_Original ==
    Decoded =>
        /\ Len(image_pub) = 1
        /\ Len(marker_array_pub) = 1
        /\ RecordIds(marker_array_pub[1]) = CompletedIds

\* C6 as stated: when the dictionary string is not recognised, startup has
\* failed with neither subscription created.
C6_Original ==
    phase = "terminated" => (~image_subscriber_ /\ ~camera_info_subscriber_)

\* The enumerated set of dictionary names: sixteen size/count variants, four
\* AprilTag variants and the original one.
RecognisedNames ==
    { "DICT_" \o size \o "_" \o count :
          size \in {"4X4", "5X5", "6X6", "7X7"},
          count \in {"50", "100", "250", "1000"} }
    \cup { "DICT_APRILTAG_" \o family : family \in {"16h5", "25h9", "36h10", "36h11"} }
    \cup { "DICT_ARUCO_ORIGINAL" }

\* C7: a node that spins was configured with one of the 21 recognised names
\* and selected the dictionary of that name; with any other string main ends
\* in initialize and no image or calibration callback is ever handled; a
\* recognised name never ends main there.
C7_DictionaryValidated ==
    /\ Cardinality(RecognisedNames) = 21
    /\ phase \in {"spinning", "crashed"} =>
          /\ dictionary_ \in RecognisedNames
          /\ aruco_dict_ = "cv::aruco::" \o dictionary_
    /\ (dictionary_ \notin RecognisedNames /\ phase # "constructed") =>
          /\ phase = "terminated"
          /\ ~msg.handled
          /\ ~last_info.handled
          /\ camera_matrix_ = EmptyMat
    /\ dictionary_ \in RecognisedNames => phase # "terminated"

\* C7 witness: startup has failed on the string NOT_A_REAL_DICT.
C7_Witness ==
    /\ dictionary_ = "NOT_A_REAL_DICT"
    /\ phase = "terminated"

\* C8: a calibrated frame whose image does not decode runs no detector, no
\* pose estimator and no lookup and sends nothing, and the node keeps
\* spinning; the callback leaves the calibration state as it was; and a frame
\* that follows it, decodes and has all its candidates well-posed and looked
\* up is published in full.
C8_DecodeFailureSkipsFrame ==
    /\ []((Calibrated /\ ~msg.decodable) =>
            /\ NothingSent
            /\ detect_calls = 0
            /\ estimate_calls = << >>
            /\ lookups = 0
            /\ phase = "spinning")
    /\ [][(ImageStep /\ msg'.ready /\ ~msg'.decodable) => UNCHANGED calib_vars]_vars
    /\ [][(Calibrated /\ ~msg.decodable /\ ImageStep /\ msg'.decodable /\ AllOk') =>
            /\ Len(marker_array_pub') = 1
            /\ RecordIds(marker_array_pub[1])' = msg'.marker_ids
            /\ Len(tf_sent') = Len(msg'.marker_ids)
            /\ Len(image_pub') = 1]_vars

\* C8 witness: a calibrated frame was dropped because its image did not decode.
C8_Witness ==
    /\ Calibrated /\ ~msg.decodable
    /\ log = <<"CV Bridge exception">>

\* C9: every record of every published MarkerArray carries the timestamp of
\* the image message and the frame "map"; every transform broadcast carries
\* the clock value at processing.
C9_Stamps ==
    /\ \A a \in 1..Len(marker_array_pub) :
          \A i \in 1..Len(marker_array_pub[a].markers) :
             /\ marker_array_pub[a].markers[i].stamp = msg.stamp
             /\ marker_array_pub[a].markers[i].frame_id = "map"
    /\ \A i \in 1..Len(tf_sent) : tf_sent[i].stamp = msg.now

\* C9 witness: a frame handled at a clock value that is not its timestamp,
\* with two records published and two transforms broadcast.
C9_Witness ==
    /\ Decoded
    /\ msg.stamp # msg.now
    /\ Len(marker_array_pub) = 1
    /\ Len(marker_array_pub[1].markers) = 2
    /\ Len(tf_sent) = 2
    /\ tf_sent[1].stamp # marker_array_pub[1].markers[1].stamp

\* C10 as stated: the intrinsic matrix and the distortion coefficients the
\* pose estimator is given in a frame are those of the calibration message
\* handled last before it (no coefficients standing for no distortion).
C10_Original ==
    [][(ImageStep /\ estimate_calls' # << >>) =>
          /\ last_info.handled
          /\ estimate_calls'[1].camera_matrix = last_info.k
          /\ \/ estimate_calls'[1].dist_coeffs = last_info.d
             \/ /\ last_info.d = << >>
                /\ \A j \in 1..Len(estimate_calls'[1].dist_coeffs) :
                      estimate_calls'[1].dist_coeffs[j] = 0]_vars

\* C11: between callbacks of a running node, the readiness flag is set exactly
\* when a calibration callback has set the intrinsic matrix; a node that has
\* not started spinning has neither.
C11_ReadyIffMatrixSet ==
    phase # "crashed" => (received_camera_info_ <=> camera_matrix_ # EmptyMat)

\* C11 witness: a calibration message without coefficients was handled, the
\* matrix is set and the flag is up.
C11_Witness ==
    /\ phase = "spinning"
    /\ received_camera_info_
    /\ camera_matrix_ # EmptyMat
    /\ last_info.handled /\ last_info.d = << >>

\* The frame handled last was left at candidate FailedAt: its pose was empty
\* or its lookup threw.
Aborted ==
    /\ Decoded
    /\ msg.results # << >>
    /\ msg.results[Len(msg.results)] # "ok"

FailedAt == Len(msg.results)

\* The number of candidates broadcast by an aborted frame: the failing one is
\* included when its lookup threw, excluded when its pose was empty.
BroadcastUpTo ==
    IF msg.results[FailedAt] = "lookup_failed" THEN FailedAt ELSE FailedAt - 1

\* C12: when the frame is left at candidate k, the broadcasts are those of
\* the candidates before k in detection order, plus k's own when its lookup
\* threw and without it when its pose was empty; the lookups are as many; no
\* candidate from k on is recorded in a published set or drawn on a
\* published image.
C12_NothingAfterFailure ==
    Aborted =>
       /\ Len(tf_sent) = BroadcastUpTo
       /\ \A i \in 1..BroadcastUpTo :
             tf_sent[i].child_frame_id = ExpectedChild[msg.marker_ids[i]]
       /\ lookups = BroadcastUpTo
       /\ \A i \in 1..Len(marker_array_pub) :
             Len(marker_array_pub[i].markers) < FailedAt
       /\ \A i \in 1..Len(image_pub) : Len(image_pub[i].axes) < FailedAt

\* C12 witness: of two candidates the second has an empty pose; the first was
\* broadcast, the second not.
C12_Witness ==
    /\ Aborted
    /\ msg.marker_ids = <<7, 12>>
    /\ msg.results = <<"ok", "degenerate">>
    /\ Len(tf_sent) = 1
    /\ tf_sent[1].child_frame_id = "aruco_marker_7"

\* C13: the pose estimator is called once, for all candidates of the frame
\* together, when calibration is ready, the image decodes and the detector
\* returns at least one candidate; it is not called otherwise, and never
\* while calibration is not ready.
C13_EstimatorOncePerFrame ==
    /\ Len(estimate_calls) <= 1
    /\ (Decoded /\ msg.marker_ids # << >>) =>
          /\ Len(estimate_calls) = 1
          /\ estimate_calls[1].n = Len(msg.marker_ids)
    /\ ~(Decoded /\ msg.marker_ids # << >>) => estimate_calls = << >>
    /\ estimate_calls # << >> => received_camera_info_ /\ msg.ready

\* C13 witness: a frame with two candidates, the first of which fails its
\* lookup, has had one estimator call for both.
C13_Witness ==
    /\ Decoded
    /\ msg.marker_ids = <<12, 7>>
    /\ msg.results = <<"lookup_failed">>
    /\ Len(estimate_calls) = 1
    /\ estimate_calls[1].n = 2

\* The image callback handled last was dropped for want of calibration and
\* logged that it is waiting.
WaitingLogged ==
    /\ msg.handled
    /\ ~msg.ready
    /\ \E i \in 1..Len(log) : log[i] = "Waiting for camera info."

\* C14 as stated: of consecutive image callbacks that arrive while calibration
\* is not ready, at most one logs the waiting message; an image callback
\* that follows a dropped frame which logged it, and is dropped too, logs
\* nothing.
C14_Original ==
    [][(WaitingLogged /\ ImageStep /\ ~msg'.ready) => log' = << >>]_vars

\* The number of candidates the frame handled last has broadcast, and whether
\* it reached the two publish calls, as its own inputs tell.
FrameBroadcasts ==
    IF ~Decoded THEN 0
    ELSE IF AllOk THEN Len(msg.marker_ids)
    ELSE BroadcastUpTo

FramePublishes == Decoded /\ AllOk

\* C15: what an image callback leaves in the sinks is a function of its own
\* frame alone (readiness found, stamp, clock reading, decoding, detection,
\* pose and lookup results), whatever the frames before it did: the
\* broadcasts are those of its own leading candidates, and a published set
\* holds one record per candidate of this frame and no other record.
C15_FrameOutputsFresh ==
    msg.handled =>
       /\ tf_sent = [i \in 1..FrameBroadcasts |->
                        [stamp |-> msg.now, frame_id |-> camera_frame_,
                         child_frame_id |-> ExpectedChild[msg.marker_ids[i]]]]
       /\ lookups = FrameBroadcasts
       /\ detect_calls = IF Decoded THEN 1 ELSE 0
       /\ Len(estimate_calls) = IF Decoded /\ msg.marker_ids # << >> THEN 1 ELSE 0
       /\ image_pub = IF FramePublishes
                      THEN <<[stamp |-> msg.stamp, encoding |-> "bgr8",
                              axes |-> msg.marker_ids]>>
                      ELSE << >>
       /\ marker_array_pub =
             IF FramePublishes
             THEN <<[stamp |-> msg.now, frame_id |-> "map",
                     markers |-> [i \in 1..Len(msg.marker_ids) |->
                                     [frame_id |-> "map", stamp |-> msg.stamp,
                                      id |-> msg.marker_ids[i]]]]>>
             ELSE << >>

\* C15 witness: a frame with the single candidate 12 published a set with the
\* single record 12.
C15_Witness ==
    /\ Decoded /\ AllOk
    /\ msg.marker_ids = <<12>>
    /\ Len(marker_array_pub) = 1
    /\ RecordIds(marker_array_pub[1]) = <<12>>
    /\ Len(tf_sent) = 1

\* C16 as stated: a calibration message with no distortion coefficients is
\* accepted even as the first one; once a callback has taken such a message
\* in (the distortion matrix is the all-zero vector), the callback has
\* completed with calibration ready and the node goes on spinning.
C16_Original ==
    (camera_matrix_ # EmptyMat /\ camera_distortion_ = Zeros4) =>
       /\ phase = "spinning"
       /\ received_camera_info_
       /\ last_info.handled
       /\ last_info.d = << >>

\* The positions in the callback's sequence of sink calls that went to sink.
SinkPositions(sink) == { i \in 1..Len(sink_order) : sink_order[i] = sink }

\* C17: an image callback publishes the annotated image and the MarkerArray
\* both, once each and the image first, or neither of them.
C17_ImageAndSetTogether ==
    /\ Len(image_pub) = Len(marker_array_pub)
    /\ Len(image_pub) <= 1
    /\ Cardinality(SinkPositions("image")) = Len(image_pub)
    /\ Cardinality(SinkPositions("markers")) = Len(marker_array_pub)
    /\ \A i \in SinkPositions("image"), j \in SinkPositions("markers") : i < j

\* C17 witness: a frame with one candidate broadcast it, then published the
\* image, then the set.
C17_Witness ==
    /\ Decoded /\ AllOk
    /\ msg.marker_ids = <<7>>
    /\ Len(image_pub) = 1 /\ Len(marker_array_pub) = 1
    /\ sink_order = <<"tf", "image", "markers">>

\* C18: every record of a published set has, earlier in the same callback, a
\* broadcast whose child frame is aruco_marker_<id> of the record's id, so a
\* frame has at least as many broadcasts as published records.
C18_RecordsHaveBroadcasts ==
    /\ Cardinality(SinkPositions("tf")) = Len(tf_sent)
    /\ \A a \in 1..Len(marker_array_pub) :
          /\ Len(tf_sent) >= Len(marker_array_pub[a].markers)
          /\ \A r \in 1..Len(marker_array_pub[a].markers) :
                /\ r <= Len(tf_sent)
                /\ tf_sent[r].child_frame_id =
                      ExpectedChild[marker_array_pub[a].markers[r].id]
          /\ \A i \in SinkPositions("tf"), j \in SinkPositions("markers") : i < j

\* C18 witness, the converse failing: a frame left at the lookup of its second
\* candidate has broadcast two transforms and published no record.
C18_Witness ==
    /\ Aborted
    /\ msg.marker_ids = <<7, 12>>
    /\ msg.results = <<"ok", "lookup_failed">>
    /\ Len(tf_sent) = 2
    /\ tf_sent[2].child_frame_id = "aruco_marker_12"
    /\ marker_array_pub = << >>

\* C19: no step resets the readiness flag once it is set, and an image
\* callback that runs with the flag set finds calibration ready and logs no
\* waiting message.
C19_ReadinessMonotone ==
    /\ [][received_camera_info_ => received_camera_info_']_vars
    /\ [][(received_camera_info_ /\ ImageStep) =>
             /\ msg'.ready
             /\ \A i \in 1..Len(log') : log'[i] # "Waiting for camera info."]_vars

\* C19 witness: with calibration received, a frame was handled as ready and
\* published.
C19_Witness ==
    /\ received_camera_info_
    /\ Calibrated
    /\ last_info.handled
    /\ image_pub # << >>

====
